---- MODULE Spec2Model ----
(***************************************************************************)
(* State-machine model of AIUpscalerApp                                    *)
(* (src/ai_upscaler_website_react_single_file.jsx).                        *)
(*                                                                         *)
(* One action per event handler or asynchronous callback.  An action is    *)
(* the handler's state updates followed by the render they cause and the   *)
(* effects of that render (cleanup of the previous effect instance, then   *)
(* the new effect body), which is how React runs them.                     *)
(*                                                                         *)
(* Encodings: null is 0 for identifiers (file, previewUrl, jobId,          *)
(* resultUrl), "null" for fileType and -1 for processingProgress.  The     *)
(* backend names the job of transfer t, and the result URL of transfer t,  *)
(* by t.                                                                   *)
(***************************************************************************)
EXTENDS Bags, FiniteSets, Integers, Sequences, TLC

VARIABLES
  file,               \* useState(null): index into Candidates, 0 = null
  fileType,           \* useState(null): "image" | "video" | "null"
  previewUrl,         \* useState(null): object-URL handle, 0 = null
  message,            \* useState("")
  uploadProgress,     \* useState(0)
  processingProgress, \* useState(null): -1 = null
  jobId,              \* useState(null): 0 = null
  resultUrl,          \* useState(null): 0 = null
  isProcessing,       \* useState(false)
  uploads,            \* XHRs in flight: set of [id, file, endpoint, loaded, total]
  nStarted,           \* number of transfers started so far
  poller,             \* poll chain of the current polling-effect instance
  stale,              \* poll chains of effect instances already cleaned up
  created,            \* number of URL.createObjectURL calls
  revoked,            \* revoked[h]: number of URL.revokeObjectURL(h) calls
  window,             \* observer: status queries since the latest startUpscale
  syncDone,           \* observer: the latest transfer answered with a result
  ended,              \* observer: the latest terminal status seen for a tracked job
  last                \* observer: the event that produced this state

vars == <<file, fileType, previewUrl, message, uploadProgress,
          processingProgress, jobId, resultUrl, isProcessing, uploads,
          nStarted, poller, stale, created, revoked, window, syncDone, ended, last>>

reactState == <<file, fileType, previewUrl, message, uploadProgress,
                processingProgress, jobId, resultUrl, isProcessing>>

(***************************************************************************)
(* Bounds of the model.                                                    *)
(***************************************************************************)
MaxUploads == 3     \* startUpscale calls explored
MaxIntakes == 2     \* accepted file intakes explored
ProgressTotal == 2  \* ev.total of the upload progress events explored
PctMaxTotal == 8    \* largest ev.total explored for the percentage alone
TrackUploads == 2   \* startUpscale calls explored where tracking is left alone

(***************************************************************************)
(* Program constants.                                                      *)
(***************************************************************************)
MAX_FILE_SIZE_BYTES == 1024 * 1024 * 1024

Null == 0
NoProgress == -1

(***************************************************************************)
(* Candidate files offered to onFiles: [size, type], the type split at its *)
(* first "/" so that startsWith("image/") is a test on the first part.     *)
(***************************************************************************)
Candidates ==
  << [size |-> 5,                       type |-> <<"image", "png">>],
     [size |-> MAX_FILE_SIZE_BYTES,     type |-> <<"video", "mp4">>],
     [size |-> 7,                       type |-> <<"text", "plain">>],
     [size |-> MAX_FILE_SIZE_BYTES + 1, type |-> <<"image", "png">>] >>

FileIds == 1..Len(Candidates)

\* The file lists a drop or a file-input change can deliver (only files[0] is read).
FileLists == {<<>>} \cup {<<f>> : f \in FileIds}

TransferIds == 1..MaxUploads
Handles == 1..MaxIntakes

NoPoller == [job |-> Null, phase |-> "none"]

NoEnd == [job |-> Null, status |-> "no"]

NoEvent == [op |-> "init", id |-> 0, kind |-> ""]

Event(op, id, kind) == [op |-> op, id |-> id, kind |-> kind]

(***************************************************************************)
(* Messages.                                                               *)
(***************************************************************************)
MsgTooLarge == "File too large. Please upload a smaller file or use chunked/direct upload."
MsgNoFile == "Koi file select karo."
MsgUploaded == "File uploaded. Processing started..."
MsgUnexpected == "Unexpected server response. Check backend logs."
MsgStatusRetry == "Could not fetch job status. Trying again..."
MsgFailedDefault == "Processing failed on server"

(***************************************************************************)
(* Init: the component as first rendered.                                  *)
(***************************************************************************)
Init ==
  /\ file = Null
  /\ fileType = "null"
  /\ previewUrl = Null
  /\ message = ""
  /\ uploadProgress = 0
  /\ processingProgress = NoProgress
  /\ jobId = Null
  /\ resultUrl = Null
  /\ isProcessing = FALSE
  /\ uploads = {}
  /\ nStarted = 0
  /\ poller = NoPoller
  /\ stale = EmptyBag
  /\ created = 0
  /\ revoked = [h \in Handles |-> 0]
  /\ window = "closed"
  /\ syncDone = FALSE
  /\ ended = NoEnd
  /\ last = NoEvent

(***************************************************************************)
(* Status queries outstanding.                                             *)
(***************************************************************************)
Chain(j, ph) == [job |-> j, phase |-> ph]

\* Number of status fetches for job j in flight.
FetchCount(j) ==
  (IF poller = Chain(j, "fetch") THEN 1 ELSE 0) + CopiesIn(Chain(j, "fetch"), stale)

\* Number of scheduled (not yet fired, not cancelled) poll timers for job j.
TimerCount(j) ==
  (IF poller = Chain(j, "timer") THEN 1 ELSE 0) + CopiesIn(Chain(j, "timer"), stale)

Outstanding(j) == FetchCount(j) + TimerCount(j)

(***************************************************************************)
(* The effects run after a render.                                         *)
(***************************************************************************)

\* useEffect(..., [previewUrl]): when previewUrl changed, the previous
\* instance's cleanup revokes the previewUrl it captured.  rv is the revoke
\* count after the handler's own calls.
PreviewEffect(rv) ==
  revoked' = IF previewUrl' # previewUrl /\ previewUrl # Null
             THEN [rv EXCEPT ![previewUrl] = @ + 1]
             ELSE rv

\* The handler's own URL.revokeObjectURL(previewUrl) call.
RevokeCurrent ==
  IF previewUrl # Null THEN [revoked EXCEPT ![previewUrl] = @ + 1] ELSE revoked

\* Whether the polling effect body starts a poll chain.
ShouldPoll(j, p) == j # Null /\ p

\* The cleanup of the previous polling-effect instance: clearTimeout(timer)
\* cancels a scheduled timer and does nothing to a fetch in flight, whose
\* poll then continues outside any effect instance.
Cleanup(p, s) == IF p.phase = "fetch" THEN s (+) SetToBag({p}) ELSE s

\* useEffect(..., [jobId, isProcessing]): when a dependency changed, the
\* previous instance's cleanup runs, then the body, which calls poll() when
\* jobId && isProcessing, and poll() issues a status fetch.  p and s are the
\* chains after the callback's own step.
PollEffect(p, s) ==
  IF <<jobId', isProcessing'>> = <<jobId, isProcessing>>
  THEN /\ poller' = p
       /\ stale' = s
  ELSE /\ stale' = Cleanup(p, s)
       /\ poller' = IF ShouldPoll(jobId', isProcessing')
                    THEN Chain(jobId', "fetch") ELSE NoPoller

\* A status query was issued in this step.
QueryIssued(j) == FetchCount(j)' > FetchCount(j)

\* The observers: w is the window after the handler itself, before the
\* status query its effects may issue.
Observe(w, sd, en, ev) ==
  /\ window' = IF w = "clean" /\ \E j \in TransferIds : QueryIssued(j)
               THEN "polled" ELSE w
  /\ syncDone' = sd
  /\ ended' = en
  /\ last' = ev

(***************************************************************************)
(* onFiles (handleDrop, handleFileChange).                                 *)
(***************************************************************************)
\* TooLarge with the size test made inclusive (>= for >): the slip that
\* C10's exact-maximum case is there to exclude.
TooLargeInclusive(f) == Candidates[f].size >= MAX_FILE_SIZE_BYTES

\* f.size > MAX_FILE_SIZE_BYTES
TooLarge(f) == Candidates[f].size > MAX_FILE_SIZE_BYTES

StartsWith(t, prefix) == t[1] = prefix

TypeOf(f) ==
  IF StartsWith(Candidates[f].type, "image") THEN "image"
  ELSE IF StartsWith(Candidates[f].type, "video") THEN "video"
  ELSE "null"

OnFiles(files) ==
  IF Len(files) = 0
  THEN /\ UNCHANGED <<reactState, uploads, nStarted, poller, stale, created, revoked>>
       /\ Observe("closed", FALSE, ended, Event("onFiles", 0, "empty"))
  ELSE LET f == files[1] IN
       IF TooLarge(f)
       THEN /\ message' = MsgTooLarge
            /\ UNCHANGED <<file, fileType, previewUrl, uploadProgress,
                           processingProgress, jobId, resultUrl, isProcessing,
                           uploads, nStarted, poller, stale, created, revoked>>
            /\ Observe("closed", FALSE, ended, Event("onFiles", f, "rejected"))
       ELSE /\ created < MaxIntakes
            /\ file' = f
            /\ fileType' = TypeOf(f)
            /\ message' = ""
            /\ created' = created + 1
            /\ previewUrl' = created + 1
            /\ PreviewEffect(RevokeCurrent)
            /\ resultUrl' = Null
            /\ processingProgress' = NoProgress
            /\ uploadProgress' = 0
            /\ UNCHANGED <<jobId, isProcessing, uploads, nStarted, poller, stale>>
            /\ Observe("closed", FALSE, ended, Event("onFiles", f, "accepted"))

(***************************************************************************)
(* clearAll (the Clear button, rendered while file is non-null).           *)
(***************************************************************************)
\* ClearAll with setProcessingProgress(null) left out: the slip that C11's
\* reset in the middle of a poll is there to exclude.
ClearAllKeepsProgress ==
  /\ file # Null
  /\ file' = Null
  /\ fileType' = "null"
  /\ previewUrl' = Null
  /\ PreviewEffect(RevokeCurrent)
  /\ message' = ""
  /\ uploadProgress' = 0
  /\ UNCHANGED processingProgress
  /\ resultUrl' = Null
  /\ jobId' = Null
  /\ isProcessing' = FALSE
  /\ PollEffect(poller, stale)
  /\ UNCHANGED <<uploads, nStarted, created>>
  /\ Observe("closed", FALSE, ended, Event("clearAll", 0, ""))

ClearAll ==
  /\ file # Null
  /\ file' = Null
  /\ fileType' = "null"
  /\ previewUrl' = Null
  /\ PreviewEffect(RevokeCurrent)
  /\ message' = ""
  /\ uploadProgress' = 0
  /\ processingProgress' = NoProgress
  /\ resultUrl' = Null
  /\ jobId' = Null
  /\ isProcessing' = FALSE
  /\ PollEffect(poller, stale)
  /\ UNCHANGED <<uploads, nStarted, created>>
  /\ Observe("closed", FALSE, ended, Event("clearAll", 0, ""))

(***************************************************************************)
(* startUpscale (the start button: rendered while file is non-null,        *)
(* disabled while isProcessing) up to the await of uploadFile.             *)
(***************************************************************************)
Endpoint(ft) == IF ft = "image" THEN "/api/upscale-image" ELSE "/api/upscale-video"

\* StartReset with setResultUrl(null) left out: the slip that C2's cleared
\* outcome is there to exclude.
StartResetKeepsResult ==
  /\ message' = ""
  /\ uploadProgress' = 0
  /\ processingProgress' = NoProgress
  /\ UNCHANGED resultUrl

\* The four setters startUpscale calls before it builds the form data.
StartReset ==
  /\ message' = ""
  /\ uploadProgress' = 0
  /\ processingProgress' = NoProgress
  /\ resultUrl' = Null

StartUpscale ==
  /\ file # Null
  /\ ~isProcessing
  /\ nStarted < MaxUploads
  /\ IF file = Null
     THEN /\ message' = MsgNoFile
          /\ UNCHANGED <<file, fileType, previewUrl, uploadProgress,
                         processingProgress, jobId, resultUrl, isProcessing,
                         uploads, nStarted, poller, stale, created, revoked>>
          /\ Observe("closed", FALSE, ended, Event("startUpscale", 0, "nofile"))
     ELSE /\ StartReset
          /\ isProcessing' = TRUE
          /\ nStarted' = nStarted + 1
          /\ uploads' = uploads \cup {[id |-> nStarted + 1, file |-> file,
                                       endpoint |-> Endpoint(fileType), loaded |-> 0,
                                       total |-> ProgressTotal]}
          /\ UNCHANGED <<file, fileType, previewUrl, jobId, created, revoked>>
          /\ PollEffect(poller, stale)
          /\ Observe("clean", FALSE, ended,
                     Event("startUpscale", nStarted + 1,
                           IF resultUrl # Null \/ message # "" THEN "retry" ELSE "fresh"))

(***************************************************************************)
(* uploadFile: the XHR callbacks, and the continuation of startUpscale     *)
(* that runs when the promise settles.                                     *)
(***************************************************************************)
\* Math.round((loaded / total) * 100): the nearest integer, a half rounded
\* up (the quotient is exact for the totals explored).
Pct(loaded, total) == (200 * loaded + total) \div (2 * total)

\* ev.loaded never goes down and never passes ev.total, the size of the
\* request body.
UploadProgress(u, loaded, computable) ==
  /\ u \in uploads
  /\ loaded >= u.loaded
  /\ loaded <= u.total
  /\ uploads' = (uploads \ {u}) \cup {[u EXCEPT !.loaded = loaded]}
  /\ uploadProgress' = IF computable THEN Pct(loaded, u.total) ELSE uploadProgress
  /\ UNCHANGED <<file, fileType, previewUrl, message, processingProgress, jobId,
                 resultUrl, isProcessing, nStarted, poller, stale, created, revoked>>
  /\ Observe(window, syncDone, ended,
             Event("progress", u.id, IF computable THEN "computable" ELSE "unknown"))

HttpStatuses == {200, 299, 300, 500}

Bodies == {"job", "result", "both", "empty", "invalid"}

HttpOk(status) == status >= 200 /\ status < 300

\* JSON.parse(xhr.responseText), {} when it throws; an absent field is 0.
ParseBody(t, body) ==
  [jobId |-> IF body \in {"job", "both"} THEN t ELSE Null,
   resultUrl |-> IF body \in {"result", "both"} THEN t ELSE Null]

MsgUploadFailed(reason) == "Upload failed: " \o reason

\* The try block of startUpscale after the await.
Resolved(t, response) ==
  IF response.jobId # Null
  THEN /\ jobId' = response.jobId
       /\ message' = MsgUploaded
       /\ UNCHANGED <<resultUrl, isProcessing>>
  ELSE IF response.resultUrl # Null
  THEN /\ resultUrl' = response.resultUrl
       /\ isProcessing' = FALSE
       /\ UNCHANGED <<jobId, message>>
  ELSE /\ message' = MsgUnexpected
       /\ isProcessing' = FALSE
       /\ UNCHANGED <<jobId, resultUrl>>

\* The catch block of startUpscale.
Rejected(reason) ==
  /\ message' = MsgUploadFailed(reason)
  /\ isProcessing' = FALSE
  /\ UNCHANGED <<jobId, resultUrl>>

UploadKind(status, body) ==
  IF ~HttpOk(status) THEN "http"
  ELSE IF ParseBody(1, body).jobId # Null THEN "job"
  ELSE IF ParseBody(1, body).resultUrl # Null THEN "result"
  ELSE "unexpected"

\* xhr.onload
UploadLoad(u, status, body) ==
  /\ u \in uploads
  /\ uploads' = uploads \ {u}
  /\ IF HttpOk(status)
     THEN Resolved(u.id, ParseBody(u.id, body))
     ELSE Rejected("Upload failed: " \o ToString(status))
  /\ UNCHANGED <<file, fileType, previewUrl, uploadProgress, processingProgress,
                 nStarted, created, revoked>>
  /\ PollEffect(poller, stale)
  /\ Observe(window,
             IF u.id = nStarted /\ UploadKind(status, body) = "result"
             THEN window # "closed" ELSE syncDone,
             ended,
             Event("upload", u.id, UploadKind(status, body)))

\* xhr.onerror
UploadError(u) ==
  /\ u \in uploads
  /\ uploads' = uploads \ {u}
  /\ Rejected("Network error during upload")
  /\ UNCHANGED <<file, fileType, previewUrl, uploadProgress, processingProgress,
                 nStarted, created, revoked>>
  /\ PollEffect(poller, stale)
  /\ Observe(window, syncDone, ended, Event("upload", u.id, "network"))

(***************************************************************************)
(* poll: the callbacks of one poll chain.  live says whether the chain is  *)
(* the one of the current polling-effect instance.                         *)
(***************************************************************************)
Has(c, live) == IF live THEN poller = c ELSE BagIn(c, stale)

\* The chains with chain c taken out (as the pair <<poller, stale>>).
Without(c, live) ==
  IF live THEN <<NoPoller, stale>> ELSE <<poller, stale (-) SetToBag({c})>>

\* The chains with chain c moved to phase ph.
Moved(c, live, ph) ==
  IF live THEN <<Chain(c.job, ph), stale>>
  ELSE <<poller, (stale (-) SetToBag({c})) (+) SetToBag({Chain(c.job, ph)})>>

ProgressValues == {NoProgress, 55}

\* The status bodies the backend may answer a query for job j with; an
\* absent resultUrl is 0 and an absent error is "".
StatusData(j) ==
  [status : {"processing", "queued"}, progress : ProgressValues, resultUrl : {Null}, error : {""}]
  \cup [status : {"done"}, progress : ProgressValues, resultUrl : {Null, j}, error : {""}]
  \cup [status : {"failed"}, progress : ProgressValues, resultUrl : {Null}, error : {"", "boom"}]

\* data.error || "Processing failed on server"
ErrorText(data) == IF data.error # "" THEN data.error ELSE MsgFailedDefault

\* The branch of poll's if/else-if/else that a status body takes.
Branch(data) ==
  IF data.status = "done" THEN "done"
  ELSE IF data.status = "failed" THEN "failed"
  ELSE "pending"

\* A terminal status as the interface describes it: done with its result
\* reference, or failed.
Terminal(data) ==
  \/ data.status = "done" /\ data.resultUrl # Null
  \/ data.status = "failed"

\* Retry with the setTimeout left out, so that the chain ends: the slip that
\* C8's single retry is there to exclude.
RetryDropped(c, live) == Without(c, live)

\* timer = setTimeout(poll, POLL_INTERVAL): the chains with c waiting for
\* its next poll.
Retry(c, live) == Moved(c, live, "timer")

\* The try block of poll after the awaits: res.ok and res.json() succeeded.
PollResolved(c, live, data) ==
  /\ Has(c, live)
  /\ c.phase = "fetch"
  /\ processingProgress' = data.progress
  /\ IF Branch(data) = "done"
     THEN /\ resultUrl' = data.resultUrl
          /\ isProcessing' = FALSE
          /\ jobId' = Null
          /\ UNCHANGED message
          /\ PollEffect(Without(c, live)[1], Without(c, live)[2])
     ELSE IF Branch(data) = "failed"
     THEN /\ message' = ErrorText(data)
          /\ isProcessing' = FALSE
          /\ jobId' = Null
          /\ UNCHANGED resultUrl
          /\ PollEffect(Without(c, live)[1], Without(c, live)[2])
     ELSE /\ UNCHANGED <<message, resultUrl, isProcessing, jobId>>
          /\ PollEffect(Retry(c, live)[1], Retry(c, live)[2])
  /\ UNCHANGED <<file, fileType, previewUrl, uploadProgress, uploads, nStarted,
                 created, revoked>>
  /\ Observe(window, syncDone,
             IF c.job = jobId /\ Terminal(data)
             THEN [job |-> c.job, status |-> data.status] ELSE ended,
             Event("status", c.job, Branch(data)))

FetchFailures == {"not ok", "network", "parse"}

\* The catch block of poll: !res.ok, a rejected fetch or a rejected res.json().
PollRejected(c, live, why) ==
  /\ Has(c, live)
  /\ c.phase = "fetch"
  /\ message' = MsgStatusRetry
  /\ UNCHANGED <<file, fileType, previewUrl, uploadProgress, processingProgress,
                 jobId, resultUrl, isProcessing, uploads, nStarted, created, revoked>>
  /\ PollEffect(Retry(c, live)[1], Retry(c, live)[2])
  /\ Observe(window, syncDone, ended, Event("status", c.job, "error"))

\* The timer set by setTimeout(poll, POLL_INTERVAL) fires: poll() runs again.
TimerFires(c, live) ==
  /\ Has(c, live)
  /\ c.phase = "timer"
  /\ UNCHANGED <<reactState, uploads, nStarted, created, revoked>>
  /\ PollEffect(Moved(c, live, "fetch")[1], Moved(c, live, "fetch")[2])
  /\ Observe(window, syncDone, ended, Event("timer", c.job, ""))

Chains == {Chain(j, ph) : j \in TransferIds, ph \in {"fetch", "timer"}}

Next ==
  \/ \E files \in FileLists : OnFiles(files)
  \/ ClearAll
  \/ StartUpscale
  \/ \E u \in uploads, loaded \in 0..ProgressTotal, computable \in BOOLEAN :
       UploadProgress(u, loaded, computable)
  \/ \E u \in uploads, status \in HttpStatuses, body \in Bodies : UploadLoad(u, status, body)
  \/ \E u \in uploads : UploadError(u)
  \/ \E c \in Chains, live \in BOOLEAN : \E data \in StatusData(c.job) : PollResolved(c, live, data)
  \/ \E c \in Chains, live \in BOOLEAN, why \in FetchFailures : PollRejected(c, live, why)
  \/ \E c \in Chains, live \in BOOLEAN : TimerFires(c, live)

Spec == Init /\ [][Next]_vars

(***************************************************************************)
(* The upload percentage alone: one transfer just started by startUpscale, *)
(* its request body of any size up to PctMaxTotal, and the progress events *)
(* of its XHR.                                                             *)
(***************************************************************************)
InitPct ==
  /\ file \in {f \in FileIds : ~TooLarge(f)}
  /\ fileType = TypeOf(file)
  /\ previewUrl = 1
  /\ message = ""
  /\ uploadProgress = 0
  /\ processingProgress = NoProgress
  /\ jobId = Null
  /\ resultUrl = Null
  /\ isProcessing = TRUE
  /\ \E total \in 1..PctMaxTotal :
       uploads = {[id |-> 1, file |-> file, endpoint |-> Endpoint(fileType),
                   loaded |-> 0, total |-> total]}
  /\ nStarted = 1
  /\ poller = NoPoller
  /\ stale = EmptyBag
  /\ created = 1
  /\ revoked = [h \in Handles |-> 0]
  /\ window = "clean"
  /\ syncDone = FALSE
  /\ ended = NoEnd
  /\ last = Event("startUpscale", 1, "fresh")

NextPct ==
  \E u \in uploads, loaded \in 0..PctMaxTotal, computable \in BOOLEAN :
    UploadProgress(u, loaded, computable)

SpecPct == InitPct /\ [][NextPct]_vars

(***************************************************************************)
(* Completion tracking left alone: the user acts only while no job is      *)
(* tracked, the backend answers a status query as its interface says (done *)
(* carries the result reference), every upload and every status fetch is   *)
(* answered, every scheduled timer fires, and a tracked job that keeps     *)
(* being queried is eventually answered done or failed.                    *)
(***************************************************************************)
\* The status bodies of StatusData(j) that follow the interface.
Answers(j) == {data \in StatusData(j) : data.status = "done" => data.resultUrl # Null}

UploadSettles == \E u \in uploads :
  \/ \E status \in HttpStatuses, body \in Bodies : UploadLoad(u, status, body)
  \/ UploadError(u)

FetchSettles == \E c \in Chains, live \in BOOLEAN :
  \/ \E data \in Answers(c.job) : PollResolved(c, live, data)
  \/ \E why \in FetchFailures : PollRejected(c, live, why)

\* A status query of the tracked job is answered done or failed.
TerminalAnswer == \E c \in Chains, live \in BOOLEAN :
  /\ c.job = jobId
  /\ \E data \in Answers(c.job) : Terminal(data) /\ PollResolved(c, live, data)

TimerElapses == \E c \in Chains, live \in BOOLEAN : TimerFires(c, live)

NextTrack ==
  \/ jobId = Null /\ \E files \in FileLists : OnFiles(files)
  \/ jobId = Null /\ ClearAll
  \/ jobId = Null /\ nStarted < TrackUploads /\ StartUpscale
  \/ \E u \in uploads, loaded \in 0..ProgressTotal, computable \in BOOLEAN :
       UploadProgress(u, loaded, computable)
  \/ \E u \in uploads, status \in HttpStatuses, body \in Bodies : UploadLoad(u, status, body)
  \/ \E u \in uploads : UploadError(u)
  \/ \E c \in Chains, live \in BOOLEAN : \E data \in Answers(c.job) : PollResolved(c, live, data)
  \/ \E c \in Chains, live \in BOOLEAN, why \in FetchFailures : PollRejected(c, live, why)
  \/ \E c \in Chains, live \in BOOLEAN : TimerFires(c, live)

SpecTrack ==
  /\ Init
  /\ [][NextTrack]_vars
  /\ WF_vars(UploadSettles)
  /\ WF_vars(FetchSettles)
  /\ WF_vars(TimerElapses)
  /\ SF_vars(TerminalAnswer)

(***************************************************************************)
(* Claims.                                                                 *)
(***************************************************************************)

\* C1: once the tracked job has been cleared or changed (by reset or
\* otherwise), no status query for the old job is issued any more: every
\* status query that is issued is for the job tracked at that moment.
C1_NoQueryForOldJob ==
  [][\A j \in TransferIds : QueryIssued(j) => jobId' = j]_vars

Count(b) == IF b THEN 1 ELSE 0

\* C2 (as claimed): in every reachable state at most one of {jobId non-null,
\* resultUrl non-null, message non-empty} holds.
C2_AtMostOneOutcome ==
  Count(jobId # Null) + Count(resultUrl # Null) + Count(message # "") <= 1

\* C2 (amended): startUpscale clears the prior outcome it can clear: in the
\* state it produces resultUrl is null and message is empty, so that at most
\* one of the three (the job) holds there.
C2_StartClearsOutcome ==
  last.op = "startUpscale" =>
    /\ resultUrl = Null
    /\ message = ""
    /\ C2_AtMostOneOutcome

\* C2 witness: startUpscale has run while a result or a message of an earlier
\* outcome was shown, and has cleared it.
C2_Witness ==
  /\ last.op = "startUpscale"
  /\ last.kind = "retry"
  /\ last.id > 1
  /\ resultUrl = Null
  /\ message = ""

\* C3: whenever an upload completes with a response carrying job identifier
\* J, the system enters Polling for J (jobId = J and a status query for J is
\* issued) and shows no result, and no result appears before a terminal
\* status for J has arrived.
C3_UploadEntersPolling ==
  [][/\ \A j \in TransferIds :
          (last'.op = "upload" /\ last'.kind = "job" /\ last'.id = j) =>
             /\ jobId' = j
             /\ QueryIssued(j)
             /\ resultUrl' = Null
     /\ \A j \in TransferIds :
          (jobId = j /\ resultUrl = Null /\ resultUrl' # Null) =>
             (last'.op = "status" /\ last'.id = j /\ last'.kind = "done")]_vars

\* C4: at most one status query (a fetch in flight or a scheduled timer) is
\* outstanding per job.
C4_OneOutstandingPerJob == \A j \in TransferIds : Outstanding(j) <= 1

RECURSIVE SumTo(_, _)
SumTo(f, n) == IF n = 0 THEN 0 ELSE f[n] + SumTo(f, n - 1)

\* Number of URL.revokeObjectURL calls made so far.
RevokeCalls == SumTo(revoked, MaxIntakes)

\* C5: exactly one preview handle is live after an intake and none after a
\* reset, the number of release calls equals the number of handles created
\* minus the number still live, and no handle is released more than once.
C5_ReleaseCount ==
  /\ (last.op = "onFiles" /\ last.kind = "accepted") => previewUrl = created
  /\ last.op = "clearAll" => previewUrl = Null
  /\ RevokeCalls = created - Count(previewUrl # Null)
  /\ \A h \in Handles : revoked[h] <= 1

\* C6: when the upload of the latest transfer completes with a resultUrl and
\* no jobId, resultUrl is set to it and isProcessing is cleared at once, and
\* no status query is issued from the start of that transfer until the next
\* user action.
C6_SyncResultNoQuery ==
  [][/\ (last'.op = "upload" /\ last'.kind = "result") =>
          /\ resultUrl' = last'.id
          /\ ~isProcessing'
     /\ syncDone' => window' = "clean"]_vars

\* C7: when a status query for the tracked job returns done with result
\* reference U, resultUrl = U, jobId is cleared and isProcessing is false, and
\* no status query is issued for that job afterwards.
C7_DoneIsTerminal ==
  [][/\ \A j \in TransferIds :
          (ended' # ended /\ ended' = [job |-> j, status |-> "done"]) =>
             /\ resultUrl' = j
             /\ jobId' = Null
             /\ ~isProcessing'
     /\ \A j \in TransferIds :
          ended = [job |-> j, status |-> "done"] => ~QueryIssued(j)]_vars

\* C8: a status query that itself fails leaves jobId, isProcessing and the
\* result as they are and ends no job, shows the transient message, and
\* schedules exactly one retry: the failed fetch of that job is replaced by
\* one timer, and nothing else is scheduled, issued or cancelled.  No attempt
\* is counted, so this holds after any number of failures.
C8_QueryFailureRetries ==
  [][(last'.op = "status" /\ last'.kind = "error") =>
       /\ jobId' = jobId
       /\ isProcessing' = isProcessing
       /\ resultUrl' = resultUrl
       /\ ended' = ended
       /\ message' = MsgStatusRetry
       /\ \A j \in TransferIds :
            /\ TimerCount(j)' = TimerCount(j) + Count(j = last'.id)
            /\ FetchCount(j)' = FetchCount(j) - Count(j = last'.id)]_vars

\* C8 witness: a status query of the tracked job has failed, the job is still
\* tracked and processing, and the retry it scheduled has fired: the next
\* query is in flight under the transient message.
C8_Witness ==
  /\ last.op = "timer"
  /\ message = MsgStatusRetry
  /\ jobId = last.id
  /\ isProcessing
  /\ poller = Chain(jobId, "fetch")
  /\ ended.job # jobId

\* C9: when a status query for the tracked job returns failed, message is
\* the response's error text or the default, jobId is cleared, isProcessing
\* is false and a null resultUrl stays null, and no status query is issued
\* for that job afterwards.
C9_FailedIsTerminal ==
  [][/\ \A j \in TransferIds :
          (ended' # ended /\ ended' = [job |-> j, status |-> "failed"]) =>
             /\ message' \in {"boom", MsgFailedDefault}
             /\ jobId' = Null
             /\ ~isProcessing'
             /\ (resultUrl = Null => resultUrl' = Null)
     /\ \A j \in TransferIds :
          ended = [job |-> j, status |-> "failed"] => ~QueryIssued(j)]_vars

\* C10: onFiles rejects a first file larger than MAX_FILE_SIZE_BYTES with the
\* message and leaves file, fileType and previewUrl as they are, with no
\* create or revoke call; a file of exactly that size is accepted.
C10_OversizeRejected ==
  [][(last'.op = "onFiles" /\ last'.id \in FileIds) =>
       IF Candidates[last'.id].size > MAX_FILE_SIZE_BYTES
       THEN /\ message' = MsgTooLarge
            /\ file' = file
            /\ fileType' = fileType
            /\ previewUrl' = previewUrl
            /\ created' = created
            /\ revoked' = revoked
       ELSE /\ file' = last'.id
            /\ message' = ""
            /\ created' = created + 1
            /\ previewUrl' = created']_vars

\* C10 witness: the file of exactly the maximum size was accepted, and an
\* oversize file offered after it was rejected and left it selected.
C10_Witness ==
  /\ last.op = "onFiles"
  /\ last.kind = "rejected"
  /\ Candidates[last.id].size > MAX_FILE_SIZE_BYTES
  /\ message = MsgTooLarge
  /\ file # Null
  /\ Candidates[file].size = MAX_FILE_SIZE_BYTES
  /\ previewUrl = created
  /\ revoked[previewUrl] = 0

\* The values of the nine useState hooks at the first render.
InitialState == <<Null, "null", Null, "", 0, NoProgress, Null, Null, FALSE>>

\* C11 (as claimed): reset is available in every reachable state that has
\* something to reset, and leaves every tracked variable at its initial value.
C11_ResetAnyState ==
  /\ reactState # InitialState => ENABLED ClearAll
  /\ last.op = "clearAll" => reactState = InitialState

\* C11 (amended): reset is available in every reachable state in which a
\* file is selected (idle, mid-upload, mid-poll, post-completion,
\* post-failure), and leaves every tracked variable at its initial value.
C11_ResetRestoresInitial ==
  /\ file # Null => ENABLED ClearAll
  /\ last.op = "clearAll" => reactState = InitialState

\* C11 witness: reset was called while an upload was in flight and a status
\* query of a tracked job was in flight, and every tracked variable is initial.
C11_Witness ==
  /\ last.op = "clearAll"
  /\ uploads # {}
  /\ stale # EmptyBag
  /\ reactState = InitialState

\* floor(loaded / total * 100)
Floor(loaded, total) == (100 * loaded) \div total

\* C12: after a progress event with known byte counts (0 <= loaded <= total,
\* total > 0) the reported upload percentage is floor(loaded / total * 100).
C12_PercentIsFloor ==
  (last.op = "progress" /\ last.kind = "computable") =>
    \A u \in uploads : u.id = last.id => uploadProgress = Floor(u.loaded, u.total)

\* C13: uploadProgress is an integer in 0..100, startUpscale sets it to 0,
\* and no step other than startUpscale lowers it (each upload reports
\* non-decreasing byte counts).
C13_UploadProgressMonotone ==
  [][/\ uploadProgress' \in 0..100
     /\ last'.op = "startUpscale" => uploadProgress' = 0
     /\ last'.op # "startUpscale" => uploadProgress' >= uploadProgress]_vars

\* A failure outcome of a transfer: a non-2xx status, a network error, or a
\* 2xx response with neither field (an invalid JSON body parses to {}).
FailureKinds == {"http", "network", "unexpected"}

\* The start button is rendered and not disabled.
StartEnabled == file # Null /\ ~isProcessing

\* C14: every failure outcome of a transfer sets an error message, clears
\* isProcessing so that startUpscale is enabled again, and starts no
\* completion tracking (no status query is issued).
C14_FailureAllowsRetry ==
  [][(last'.op = "upload" /\ last'.kind \in FailureKinds) =>
       /\ message' \in {MsgUnexpected, MsgUploadFailed("Network error during upload")}
                      \cup {MsgUploadFailed("Upload failed: " \o ToString(st)) : st \in HttpStatuses}
       /\ ~isProcessing'
       /\ StartEnabled'
       /\ \A j \in TransferIds : ~QueryIssued(j)]_vars

\* C15: a result is never shown while a job is active: resultUrl non-null
\* implies jobId null.
C15_ResultExcludesJob == resultUrl # Null => jobId = Null

\* The outcome of tracking: not processing, no job, and a result or the
\* error text of a failed job shown.
Settled ==
  /\ ~isProcessing
  /\ jobId = Null
  /\ (resultUrl # Null \/ message \in {"boom", MsgFailedDefault})

\* C16: while a job is tracked, queries keep being issued until a terminal
\* status is observed: a step that is no user action either clears the job
\* (the done or failed answer) or leaves a status query of the tracked job
\* in flight or scheduled.
C16_TrackingKeepsQuerying ==
  [][(jobId # Null /\ isProcessing
        /\ last'.op \notin {"onFiles", "clearAll", "startUpscale"}) =>
       (\A j \in TransferIds : jobId' = j => Outstanding(j)' >= 1)]_vars

\* C16, its outcome: a job that is tracked leads to the settled state, when
\* timers fire, queries are answered and the backend eventually answers
\* done or failed.
C16_TrackingSettles == (jobId # Null /\ isProcessing) ~> Settled

\* C17: after reset, until the next user action, no callback of an upload or
\* of a status query (progress event, upload completion or failure, status
\* response, retry timer) changes jobId, resultUrl, message, uploadProgress,
\* processingProgress or isProcessing.  No file is selected from a reset
\* until the next accepted intake.
C17_ResetSilencesCallbacks ==
  [][(file = Null /\ last'.op \in {"progress", "upload", "status", "timer"}) =>
       /\ jobId' = jobId
       /\ resultUrl' = resultUrl
       /\ message' = message
       /\ uploadProgress' = uploadProgress
       /\ processingProgress' = processingProgress
       /\ isProcessing' = isProcessing]_vars

\* C18: at most one upload is in flight, and isProcessing is false only
\* when no upload is outstanding.
C18_OneUploadInFlight ==
  /\ Cardinality(uploads) <= 1
  /\ ~isProcessing => uploads = {}

\* C19: a result that an upload completion brings is that of the most
\* recently started transfer, which uploaded the file now selected; and
\* whenever a result is shown, it is that of the most recently started
\* transfer and a file is selected.
C19_ResultOfSelectedFile ==
  [][/\ \A u \in uploads :
          (last'.op = "upload" /\ last'.kind = "result" /\ last'.id = u.id) =>
             /\ u.id = nStarted
             /\ u.file = file'
     /\ resultUrl' # Null => (resultUrl' = nStarted' /\ file' # Null)]_vars
====
